---------------------------- MODULE Spec2Model ----------------------------
(***************************************************************************)
(* A model of the mkdocs-static-i18n plugin (mkdocs_static_i18n/plugin.py, *)
(* class I18n): the event handlers on_config, on_env, on_page_markdown,    *)
(* on_page_context and on_post_build, and the helpers                      *)
(* _set_languages_options, _maybe_translate_titles, _fix_search_duplicates,*)
(* _list_replace_value and _dict_replace_value.                            *)
(*                                                                         *)
(* Strings whose prefixes matter (locale identifiers, search locations)    *)
(* are sequences of one-character strings, so that str.startswith is       *)
(* computed and not assumed.  Python objects that are shared by reference  *)
(* are values of the form [obj |-> ..., owner |-> ...]: two fields hold    *)
(* the very same object iff they hold the same such value.                 *)
(*                                                                         *)
(* The host's render pipeline is seen through the calls on_post_build      *)
(* makes into it (calls); a populate or render call may raise.  The event  *)
(* lists of the plugin registry are lists of handlers, each with the       *)
(* module it belongs to.  The theme directory list (the sitemap template)  *)
(* is not part of the state.                                               *)
(*                                                                         *)
(* The specifications share the actions: SpecConfig (on_config, on_env),  *)
(* SpecBuild (on_config, on_env, on_post_build), SpecDedup                 *)
(* (_fix_search_duplicates on an index), SpecTitles                        *)
(* (_maybe_translate_titles on a navigation, then on_page_markdown),       *)
(* SpecEvents (on_config over the registry's event lists), SpecContext     *)
(* (on_config, on_env, then on_page_context page after page) and           *)
(* SpecReplace (_list_replace_value / _dict_replace_value on a structure). *)
(***************************************************************************)
EXTENDS Integers, Sequences, FiniteSets, TLC

VARIABLES
    \* ---- the plugin's own configuration (self.config) ----
    languages,          \* self.config["languages"]: ordered mapping, a sequence of [key, opts]
    options,            \* the scalar options of self.config
    nav_translations,   \* self.config["nav_translations"]: locale -> (title -> title)
    \* ---- the plugin's attributes ----
    default_language,           \* self.default_language
    default_language_options,   \* self.default_language_options
    all_languages,              \* self.all_languages
    i18n_configs,               \* self.i18n_configs: locale -> configuration
    i18n_files,                 \* self.i18n_files: locale -> documentation pages
    material_alternates,        \* self.material_alternates
    \* ---- the host's objects ----
    config,             \* the base mkdocs configuration
    registry,           \* config["plugins"]: the (single, shared) plugin registry
    search_lang,        \* search_plugin.config["lang"]
    entries,            \* search_plugin.search_index._entries
    nav,                \* the navigation items of one locale
    host,               \* what the installation provides (theme and host versions)
    \* ---- bookkeeping of the run ----
    pc,                 \* which event of the build comes next
    calls,              \* the calls on_post_build made into the host and the integrations
    given,              \* the inputs as they were before the handler ran
    prevIndex,          \* the search index before the latest _fix_search_duplicates
    dedupRuns,          \* how many times _fix_search_duplicates ran
    once,               \* the navigation after the first title translation
    \* ---- one call of _list_replace_value / _dict_replace_value ----
    listing,            \* the list or dict handed to the function
    target,             \* old: the replace target
    replacement,        \* new: the replacement
    replaced            \* what the call returned, or that it raised

vars == << languages, options, nav_translations, default_language,
           default_language_options, all_languages, i18n_configs, i18n_files,
           material_alternates, config, registry, search_lang, entries, nav,
           host, pc, calls, given, prevIndex, dedupRuns, once, listing,
           target, replacement, replaced >>

replaceVars == << listing, target, replacement, replaced >>

pluginVars == << languages, options, nav_translations, default_language,
                 default_language_options, all_languages, i18n_configs,
                 material_alternates, config, registry, search_lang, host,
                 given >>

-----------------------------------------------------------------------------
(* Bounds of the model *)

\* the longest search index
MaxEntries == 4

\* the most locales the languages option names (the "default" key aside)
MaxLangs == 2

\* the most documentation pages of one locale
MaxPages == 2

\* the most items of a navigation, and the most children of an item
MaxItems == 2
MaxChildren == 1
MaxHandlers == 3

-----------------------------------------------------------------------------
(* Strings *)

\* the characters of the strings whose prefixes are inspected
Chars(s) ==
    CASE s = "en"    -> << "e", "n" >>
      [] s = "fr"    -> << "f", "r" >>
      [] s = "de"    -> << "d", "e" >>
      [] s = "zh"    -> << "z", "h" >>
      [] s = "a/"    -> << "a", "/" >>
      [] s = "fr/a/" -> << "f", "r", "/", "a", "/" >>
      [] s = "fra/"  -> << "f", "r", "a", "/" >>
      [] s = "en/a/" -> << "e", "n", "/", "a", "/" >>

\* str.startswith(prefix)
StartsWith(s, p) ==
    /\ Len(p) <= Len(s)
    /\ SubSeq(s, 1, Len(p)) = p

\* str.startswith(tuple_of_prefixes): true iff some prefix matches
StartsWithAny(s, ps) == \E p \in ps : StartsWith(s, p)

Range(f) == { f[i] : i \in DOMAIN f }

\* list(mapping.keys())
Keys(m) == [ i \in 1..Len(m) |-> m[i].key ]

HasKey(m, k) == \E i \in 1..Len(m) : m[i].key = k

\* mapping[k], for a key the mapping has
Get(m, k) == m[CHOOSE i \in 1..Len(m) : m[i].key = k].opts

\* an attribute that has not been set yet
None == "None"

\* a str, a pathlib.Path or an int: its type and its text in pieces, every
\* "/" a piece of its own
Leaf(kind, text) ==
    [ kind |-> kind, text |-> text, keys |-> << >>, items |-> << >> ]

\* a list of values
List(items) ==
    [ kind |-> "list", text |-> << >>, keys |-> << >>, items |-> items ]

\* a dict: its keys in order and the value of each
Dict(keys, items) ==
    [ kind |-> "dict", text |-> << >>, keys |-> keys, items |-> items ]

\* what the call of a function that raised leaves: no value
Raised == Leaf("raised", << >>)

\* no page was handed to on_page_context yet
NoPage == [ url |-> << >>, locale |-> "", dest_language |-> "" ]


-----------------------------------------------------------------------------
(* _fix_search_duplicates *)

\* a search entry, as the search integration stores it
Entry(title, location, text) ==
    [ title |-> title, location |-> location, text |-> text ]

\* the predicate of both filters: the location starts with a key of
\* self.config["languages"]
LocaleScoped(e, langs) ==
    StartsWithAny(Chars(e.location), { Chars(k) : k \in Range(Keys(langs)) })

\* filter(pred, seq), evaluated on a list that no longer changes
RECURSIVE FilterSeq(_, _)
FilterSeq(s, keep) ==
    IF s = << >> THEN << >>
    ELSE IF keep[s[1]] THEN << s[1] >> \o FilterSeq(Tail(s), keep)
         ELSE FilterSeq(Tail(s), keep)

\* a plausible slip of list.remove: the first entry with the same title and text
ListRemoveByContent(list, e) ==
    LET hits == { i \in 1..Len(list) :
                    list[i].title = e.title /\ list[i].text = e.text }
    IN  IF hits = {} THEN list
        ELSE LET i == CHOOSE j \in hits : \A k \in hits : j <= k
             IN  SubSeq(list, 1, i - 1) \o SubSeq(list, i + 1, Len(list))

\* list.remove(e): the first element equal to e is removed
ListRemove(list, e) ==
    LET hits == { i \in 1..Len(list) : list[i] = e }
    IN  IF hits = {} THEN list
        ELSE LET i == CHOOSE j \in hits : \A k \in hits : j <= k
             IN  SubSeq(list, 1, i - 1) \o SubSeq(list, i + 1, Len(list))

\* the inner loop: every duplicated entry still in the index is removed from it
RECURSIVE RemoveDuplicated(_, _)
RemoveDuplicated(list, duplicated) ==
    IF duplicated = << >> THEN list
    ELSE RemoveDuplicated(
            IF \E i \in 1..Len(list) : list[i] = duplicated[1]
            THEN ListRemove(list, duplicated[1])
            ELSE list,
            Tail(duplicated))

\* the outer loop.  default_lang_entries is a lazy filter over the index
\* itself: it reads position i of the list as the list is at that moment, and
\* stops when i passes the current length.  target_lang_entries is a list
\* made before the loop.
RECURSIVE DedupLoop(_, _, _, _)
DedupLoop(list, targets, langs, i) ==
    IF i > Len(list) THEN list
    ELSE LET d == list[i]
         IN  IF LocaleScoped(d, langs)
             THEN DedupLoop(list, targets, langs, i + 1)
             ELSE LET duplicated ==
                        FilterSeq(targets,
                            [ x \in Range(targets) |->
                                x.title = d.title /\ x.text = d.text ])
                  IN  DedupLoop(RemoveDuplicated(list, duplicated),
                                targets, langs, i + 1)

\* the index that _fix_search_duplicates leaves
_fix_search_duplicates(index, langs) ==
    LET targets == FilterSeq(index,
                       [ x \in Range(index) |-> LocaleScoped(x, langs) ])
    IN  DedupLoop(index, targets, langs, 1)

-----------------------------------------------------------------------------
(* Values *)

LUNR_LANGUAGES == { "ar", "da", "de", "en", "es", "fi", "fr", "hu", "it", "ja",
                    "nl", "no", "pt", "ro", "ru", "sv", "th", "tr", "vi" }

MKDOCS_THEMES == { "mkdocs", "readthedocs" }

\* a Python object held by reference: the same value iff the same object.
\* len is the size of the container, which is what its truth value reads.
Ref(obj, owner, len) == [ obj |-> obj, owner |-> owner, len |-> len ]

\* a key the mapping does not have
Absent == Ref("absent", "none", 0)

\* bool(x) of a list or of a missing value
Truthy(r) == r # Absent /\ r.len > 0

\* an optional list: set is FALSE for None / a missing key
Unset == [ set |-> FALSE, list |-> << >> ]
Some(list) == [ set |-> TRUE, list |-> list ]

\* a link is the sequence of its pieces: "./fr/" is << ".", "/", "fr", "/" >>
LinkOf(key) == << ".", "/", key, "/" >>

\* the options of one locale, as the Locale configuration option delivers
\* them: every key present, "" and << >> standing for an unset value
LangOpts(name, link, fixed_link, build, site_name) ==
    [ name |-> name, link |-> link, fixed_link |-> fixed_link,
      build |-> build, site_name |-> site_name ]

Item(key, opts) == [ key |-> key, opts |-> opts ]

\* mapping.pop(k) / del mapping[k]: the mapping without the key
Without(m, k) ==
    FilterSeq(m, [ x \in Range(m) |-> x.key # k ])

\* mapping[k] = v: in place for a key the mapping has, appended otherwise
Put(m, k, v) ==
    IF HasKey(m, k)
    THEN [ i \in 1..Len(m) |-> IF m[i].key = k THEN Item(k, v) ELSE m[i] ]
    ELSE Append(m, Item(k, v))

-----------------------------------------------------------------------------
(* _set_languages_options *)

\* the first loop: localized_site_name = lang_config["site_name"] or config["site_name"]
SetSiteNames(langs, site_name) ==
    [ i \in 1..Len(langs) |->
        Item(langs[i].key,
             [ langs[i].opts EXCEPT
                 !.site_name = IF langs[i].opts.site_name = "" THEN site_name
                               ELSE langs[i].opts.site_name ]) ]

\* self.config["languages"].pop("default", {...}), then the three values
\* taken from the default language's own entry when the name is "default"
DefaultLanguageOptions(langs, dl, site_name) ==
    LET popped == IF HasKey(langs, "default") THEN Get(langs, "default")
                  ELSE LangOpts("default", << ".", "/" >>, << >>, TRUE, site_name)
        rest   == Without(langs, "default")
    IN  IF popped.name = "default"
        THEN IF HasKey(rest, dl)
             THEN [ popped EXCEPT !.name = Get(rest, dl).name,
                                  !.site_name = Get(rest, dl).site_name,
                                  !.fixed_link = Get(rest, dl).fixed_link ]
             ELSE [ popped EXCEPT !.name = dl,
                                  !.site_name = site_name,
                                  !.fixed_link = << >> ]
        ELSE popped

\* a plausible slip: the synthesized default locale is always built
SynthesizedBuildAlways(rest) == TRUE

\* the build flag of a synthesized default locale: no other language set?
SynthesizedBuild(rest) == Len(rest) = 0

\* self.config["languages"] as _set_languages_options leaves it
SetLanguages(langs, dl, site_name) ==
    LET named == SetSiteNames(langs, site_name)
        dlo   == DefaultLanguageOptions(named, dl, site_name)
        rest  == Without(named, "default")
    IN  IF HasKey(rest, dl) THEN rest
        ELSE Put(rest, dl,
                 LangOpts(dlo.name, << ".", "/" >>, << >>,
                          SynthesizedBuild(rest), site_name))

-----------------------------------------------------------------------------
(* on_config *)

\* the order preserving list of all the configured languages, the default
\* language put first when the loop did not meet it
RECURSIVE OrderedKeys(_, _)
OrderedKeys(ks, acc) ==
    IF ks = << >> THEN acc
    ELSE OrderedKeys(Tail(ks),
                     IF ks[1] \in Range(acc) THEN acc ELSE Append(acc, ks[1]))

AllLanguages(langs, dl) ==
    LET listed == OrderedKeys(Keys(langs), << >>)
    IN  IF dl \in Range(listed) THEN listed ELSE << dl >> \o listed

\* one entry of config["extra"]["alternate"]
Alternate(name, link, fixed_link, lang) ==
    [ name |-> name, link |-> link, fixed_link |-> fixed_link, lang |-> lang ]

\* the entries appended by the loop over self.config["languages"].items()
RECURSIVE LanguageAlternates(_, _, _)
LanguageAlternates(langs, dlo, link_suffix) ==
    IF langs = << >> THEN << >>
    ELSE LET o == langs[1].opts
             rest == LanguageAlternates(Tail(langs), dlo, link_suffix)
         IN  IF o.build
             THEN IF dlo.build /\ o.name = dlo.name
                  THEN rest
                  ELSE << Alternate(o.name, o.link \o link_suffix,
                                    o.fixed_link, langs[1].key) >> \o rest
             ELSE rest

\* the generated config["extra"]["alternate"]
GeneratedAlternates(langs, dlo, dl, use_directory_urls) ==
    LET link_suffix == IF use_directory_urls = FALSE THEN << "index.html" >>
                       ELSE << >>
    IN  (IF dlo.build
         THEN << Alternate(dlo.name, dlo.link \o link_suffix, dlo.fixed_link, dl) >>
         ELSE << >>)
        \o LanguageAlternates(langs, dlo, link_suffix)

\* the loop over self.all_languages that extends search_langs
RECURSIVE AddSearchLangs(_, _)
AddSearchLangs(search_langs, ls) ==
    IF ls = << >> THEN search_langs
    ELSE AddSearchLangs(
            IF ls[1] \in LUNR_LANGUAGES /\ ls[1] \notin Range(search_langs)
            THEN Append(search_langs, ls[1])
            ELSE search_langs,
            Tail(ls))

\* search_plugin.config["lang"] after the block.  search_langs is
\* config["lang"] itself when that is a non-empty list, and a new list, which
\* nothing keeps, when it is None or empty.
ReconfiguredSearchLang(lang, ls) ==
    IF lang.set /\ lang.list # << >>
    THEN Some(AddSearchLangs(lang.list, ls))
    ELSE lang

\* deepcopy(config) once "hooks" and "plugins" were popped, with the plugins
\* and, when truthy, the hooks put back: every other object is a copy of
\* the locale's own
LocaleConfig(base, language, plugins, hooks) ==
    [ base EXCEPT !.extra = Ref(base.extra.obj, language, base.extra.len),
                  !.plugins = plugins,
                  !.hooks = IF Truthy(hooks) THEN hooks ELSE Absent ]

\* the module of the handlers of the with-pdf plugin
PdfModule == "mkdocs_with_pdf.plugin"

\* a functools.partial, which has no __module__
NoModule == "no __module__"

\* one handler of an event list
Handler(module, id) == [ module |-> module, id |-> id ]

\* list.pop(idx) for an index within the list (idx counts from 1 here)
Pop(list, idx) ==
    [ k \in 1..(Len(list) - 1) |-> IF k < idx THEN list[k] ELSE list[k + 1] ]

\* for idx, event in enumerate(list(events)): the snapshot is walked while
\* events.pop(idx) shortens the list itself; a pop beyond the end of the
\* list raises IndexError, which the except clause does not catch
RECURSIVE PopLoop(_, _, _)
PopLoop(events, snapshot, idx) ==
    IF idx > Len(snapshot) THEN [ events |-> events, raised |-> FALSE ]
    ELSE IF snapshot[idx].module = NoModule
         THEN PopLoop(events, snapshot, idx + 1)
         ELSE IF snapshot[idx].module = PdfModule
              THEN IF idx > Len(events)
                   THEN [ events |-> events, raised |-> TRUE ]
                   ELSE PopLoop(Pop(events, idx), snapshot, idx + 1)
              ELSE PopLoop(events, snapshot, idx + 1)

\* for events in config["plugins"].events.values(): the lists before the
\* one that raises were walked, the lists after it are left alone
RECURSIVE RemovePdfEvents(_, _)
RemovePdfEvents(lists, n) ==
    IF n > Len(lists) THEN [ events |-> lists, raised |-> FALSE ]
    ELSE LET walked == PopLoop(lists[n], lists[n], 1)
             now == [ lists EXCEPT ![n] = walked.events ]
         IN  IF walked.raised THEN [ events |-> now, raised |-> TRUE ]
             ELSE RemovePdfEvents(now, n + 1)

on_config ==
    /\ pc = "on_config"
    /\ LET dl    == options.default_language
           langs == SetLanguages(languages, dl, config.site_name)
           dlo   == DefaultLanguageOptions(
                        SetSiteNames(languages, config.site_name), dl,
                        config.site_name)
           all   == AllLanguages(langs, dl)
           hooks   == config.hooks
           plugins == config.plugins
           popped  == [ config EXCEPT !.hooks = Absent, !.plugins = Absent ]
           restored == [ config EXCEPT
                           !.hooks = IF Truthy(hooks) THEN hooks ELSE Absent ]
           themed == IF dl # "en"
                     THEN IF restored.theme_name \in MKDOCS_THEMES
                          THEN IF host.mkdocs_ge_1_2
                               THEN [ restored EXCEPT !.theme_locale = dl ]
                               ELSE restored
                          ELSE IF restored.theme_name = "material"
                               THEN [ restored EXCEPT !.theme_language = dl ]
                               ELSE restored
                     ELSE restored
           switcher == /\ options.material_alternate
                       /\ Len(all) > 1
                       /\ host.material_ge_7_1
           alternate == IF switcher /\ ~ (themed.alternate.set
                                          /\ themed.alternate.list # << >>)
                        THEN Some(GeneratedAlternates(langs, dlo, dl,
                                      themed.use_directory_urls))
                        ELSE themed.alternate
           removal == IF registry.with_pdf
                      THEN RemovePdfEvents(registry.events, 1)
                      ELSE [ events |-> registry.events, raised |-> FALSE ]
       IN  /\ given' = [ languages |-> languages, search_lang |-> search_lang,
                         config |-> config, events |-> registry.events,
                         page |-> NoPage, material_alternates |-> Unset ]
           /\ default_language' = dl
           /\ languages' = langs
           /\ default_language_options' = dlo
           /\ all_languages' = all
           /\ registry' = [ registry EXCEPT !.events = removal.events ]
           /\ IF removal.raised
              THEN \* IndexError leaves on_config before the configuration
                   \* is touched
                   /\ pc' = "raised"
                   /\ UNCHANGED << i18n_configs, config, material_alternates,
                                   search_lang, nav_translations >>
              ELSE /\ pc' = "on_env"
                   /\ i18n_configs' =
                         [ l \in Range(all) |-> LocaleConfig(popped, l, plugins, hooks) ]
                   /\ IF options.default_language_only
                      THEN /\ config' = themed
                           /\ UNCHANGED << material_alternates, search_lang,
                                           nav_translations >>
                      ELSE /\ config' = [ themed EXCEPT !.alternate = alternate ]
                           /\ material_alternates' =
                                 IF switcher /\ ~ themed.navigation_instant
                                 THEN alternate
                                 ELSE material_alternates
                           /\ search_lang' =
                                 IF options.search_reconfigure /\ registry.search
                                 THEN ReconfiguredSearchLang(search_lang, all)
                                 ELSE search_lang
                           /\ nav_translations' =
                                 IF /\ DOMAIN nav_translations # {}
                                    /\ \A l \in Range(Keys(langs)) :
                                           l \notin DOMAIN nav_translations
                                 THEN << >>
                                 ELSE nav_translations
    /\ UNCHANGED << replaceVars, options, host, i18n_files, entries, nav, calls,
                    prevIndex, dedupRuns, once >>

-----------------------------------------------------------------------------
(* on_env *)

\* the render environment the host hands to on_env
Env == Ref("env", "host", 1)

on_env ==
    /\ pc = "on_env"
    /\ i18n_configs' =
          [ l \in DOMAIN i18n_configs |->
              IF l \in Range(Keys(languages))
              THEN [ i18n_configs[l] EXCEPT !.env = Env ]
              ELSE i18n_configs[l] ]
    /\ pc' = "on_post_build"
    /\ UNCHANGED << replaceVars, languages, options, nav_translations,
                    default_language,
                    default_language_options, all_languages,
                    material_alternates, config, registry, search_lang, host,
                    given, i18n_files, entries, nav, calls, prevIndex,
                    dedupRuns, once >>

-----------------------------------------------------------------------------
(* The configurations a build starts from *)

LangKeys == { "en", "fr", "zh" }
Names == { "N1", "N2" }

\* the entries of the languages option with every option varied
FullItems ==
    { Item(k, LangOpts(n, LinkOf(k), << >>, b, sn)) :
        k \in LangKeys, n \in Names, b \in BOOLEAN, sn \in { "", "Local" } }

\* the entries a bare "fr: francais" gives: built, no site name of their own
PlainItems ==
    { Item(k, LangOpts(k, LinkOf(k), << >>, TRUE, "")) : k \in LangKeys }

\* the ordered mappings of at most MaxLangs entries with distinct keys
Mappings(items) ==
    { m \in UNION { [ 1..n -> items ] : n \in 0..MaxLangs } :
        \A i, j \in 1..Len(m) : m[i].key = m[j].key => i = j }

\* the "default" key, when the user gives one
DefaultItems ==
    { Item("default", LangOpts(n, << ".", "/" >>, << >>, b, "")) :
        n \in { "default", "N1" }, b \in BOOLEAN }

Hooks == Ref("hooks", "host", 1)
NoHooks == Ref("hooks", "host", 0)
Plugins == Ref("plugins", "host", 1)

\* the base configuration as the host hands it to on_config
BaseConfig(hooks, alternate, use_directory_urls, theme_name, instant) ==
    [ site_name |-> "Site", use_directory_urls |-> use_directory_urls,
      theme_name |-> theme_name, theme_language |-> "en", theme_locale |-> "en",
      navigation_instant |-> instant, alternate |-> alternate,
      extra |-> Ref("extra", "base", 1), hooks |-> hooks, plugins |-> Plugins,
      env |-> Absent ]

PlainConfig == BaseConfig(Hooks, Unset, TRUE, "material", FALSE)

Options(only, dl, alt, reconf) ==
    [ default_language_only |-> only, default_language |-> dl,
      material_alternate |-> alt, search_reconfigure |-> reconf ]

\* the event lists of a registry in which every plugin registered its
\* handler of an event once: the with-pdf plugin has one handler in a list
RegisteredEvents(with_pdf) ==
    IF with_pdf
    THEN << << Handler("other.plugin", 1), Handler(PdfModule, 2),
               Handler("mkdocs_static_i18n.plugin", 3) >>,
            << Handler(PdfModule, 1), Handler(NoModule, 2) >> >>
    ELSE << << Handler("other.plugin", 1),
               Handler("mkdocs_static_i18n.plugin", 2) >> >>

Registry(search, minify, with_pdf) ==
    [ search |-> search, minify |-> minify, with_pdf |-> with_pdf,
      events |-> RegisteredEvents(with_pdf) ]

Host == [ material_ge_7_1 |-> TRUE, mkdocs_ge_1_2 |-> TRUE,
          material_languages |-> { "en", "fr" } ]

\* the plugin as __init__ leaves it
Constructed ==
    /\ default_language = None
    /\ default_language_options = LangOpts("", << >>, << >>, FALSE, "")
    /\ all_languages = << >>
    /\ i18n_configs = << >>
    /\ material_alternates = Unset
    /\ given = [ languages |-> << >>, search_lang |-> Unset,
                 config |-> PlainConfig, events |-> << >>,
                 page |-> NoPage, material_alternates |-> Unset ]

\* nothing built, nothing deduplicated, nothing translated yet
Idle ==
    /\ calls = << >>
    /\ prevIndex = << >>
    /\ dedupRuns = 0
    /\ once = << >>
    /\ listing = List(<< >>)
    /\ target = Leaf("path", << >>)
    /\ replacement = Leaf("str", << >>)
    /\ replaced = List(<< >>)

\* Either the languages option is varied in full, or the rest of the
\* configuration is varied over plain locale entries.
InitConfig ==
    /\ Constructed
    /\ Idle
    /\ pc = "on_config"
    /\ host = Host
    /\ i18n_files = << >>
    /\ entries = << >>
    /\ nav = << >>
    /\ \/ /\ \E m \in Mappings(FullItems) :
                \/ languages = m
                \/ \E d \in DefaultItems : languages = << d >> \o m
          /\ \E only \in BOOLEAN, dl \in { "en", "fr" }, alt \in BOOLEAN :
                options = Options(only, dl, alt, TRUE)
          /\ config = PlainConfig
          /\ registry = Registry(TRUE, FALSE, FALSE)
          /\ search_lang = Some(<< "en" >>)
          /\ nav_translations = << >>
       \/ /\ languages \in Mappings(PlainItems)
          /\ \E dl \in { "en", "fr" }, reconf \in BOOLEAN :
                options = Options(FALSE, dl, TRUE, reconf)
          /\ \E hooks \in { Absent, NoHooks, Hooks },
                alternate \in { Unset,
                    Some(<< Alternate("Mine", << ".", "/" >>, << >>, "en") >>) },
                dirs \in BOOLEAN, theme \in { "material", "mkdocs" },
                instant \in BOOLEAN :
                config = BaseConfig(hooks, alternate, dirs, theme, instant)
          /\ \/ /\ registry = Registry(FALSE, FALSE, FALSE)
                /\ search_lang = Unset
             \/ /\ registry = Registry(TRUE, FALSE, FALSE)
                /\ search_lang \in { Unset, Some(<< >>), Some(<< "en" >>),
                                     Some(<< "fr", "en" >>) }
          /\ nav_translations \in { << >>, [ l \in { "fr" } |-> << >> ],
                                    [ l \in { "de" } |-> << >> ] }

NextConfig == on_config \/ on_env

SpecConfig == InitConfig /\ [][NextConfig]_vars

-----------------------------------------------------------------------------
(* Properties of on_config and on_env *)

Configured == pc # "on_config"

\* how many elements of a sequence satisfy a test
Count(seq, test) == Cardinality({ i \in 1..Len(seq) : test[seq[i]] })

\* the elements of seq that are in set, in their order in seq
Restrict(seq, set) == FilterSeq(seq, [ x \in Range(seq) |-> x \in set ])

\* C4: after on_config with a search integration and default_language_only
\* false, the search lang list is the initial list followed by the supported
\* active locales it lacked (search_reconfigure true), or exactly the initial
\* list (search_reconfigure false), whatever the initial list was.
C4_SearchLangExtended ==
    (Configured /\ registry.search /\ ~ options.default_language_only)
    => search_lang.list =
          IF options.search_reconfigure
          THEN given.search_lang.list
               \o Restrict(all_languages,
                           LUNR_LANGUAGES \ Range(given.search_lang.list))
          ELSE given.search_lang.list

\* the languages option as given, the "default" key aside
GivenLocales == Without(given.languages, "default")

\* C5: a default locale the languages option does not name gets an entry
\* whose build flag is true iff no other locale is configured; a default
\* locale it names keeps the name, link, fixed link and build flag it was
\* given, and the site name it was given when it was given one.
C5_DefaultLocaleEntry ==
    Configured =>
        /\ HasKey(languages, default_language)
        /\ IF HasKey(GivenLocales, default_language)
           THEN LET was == Get(GivenLocales, default_language)
                    is  == Get(languages, default_language)
                IN  /\ is.name = was.name
                    /\ is.link = was.link
                    /\ is.fixed_link = was.fixed_link
                    /\ is.build = was.build
                    /\ was.site_name # "" => is.site_name = was.site_name
                    /\ Len(languages) = Len(GivenLocales)
           ELSE /\ Get(languages, default_language).build
                      = (Len(GivenLocales) = 0)
                /\ Len(languages) = Len(GivenLocales) + 1

\* C5 witness: the default locale was synthesized beside another locale,
\* with build false
C5_Witness ==
    /\ Configured
    /\ ~ HasKey(GivenLocales, default_language)
    /\ Len(GivenLocales) > 0
    /\ ~ Get(languages, default_language).build

\* C6: all_languages holds every configured locale and the default locale
\* once each, never "default", the default locale first and the others in
\* their insertion order.
C6_DefaultFirst ==
    Configured =>
        /\ Range(all_languages)
              = Range(Keys(GivenLocales)) \cup { default_language }
        /\ \A i, j \in 1..Len(all_languages) :
              all_languages[i] = all_languages[j] => i = j
        /\ "default" \notin Range(all_languages)
        /\ all_languages[1] = default_language
        /\ Tail(all_languages)
              = Restrict(Keys(GivenLocales),
                         Range(Keys(GivenLocales)) \ { default_language })

\* on_config generated the switcher list
SwitcherGenerated ==
    /\ Configured
    /\ ~ options.default_language_only
    /\ options.material_alternate
    /\ Len(all_languages) > 1
    /\ host.material_ge_7_1
    /\ ~ (given.config.alternate.set /\ given.config.alternate.list # << >>)

\* a locale is built: its own build flag, or for the default locale the
\* build flag of the "default" options
BuildEnabled(l) ==
    \/ Get(languages, l).build
    \/ l = default_language /\ default_language_options.build

\* C9: the generated switcher list has exactly one entry per locale whose
\* build is enabled and none for a locale whose build is disabled, tagged
\* with the locale's identifier, the default locale's entry first.
C9_OneEntryPerBuiltLocale ==
    SwitcherGenerated =>
        LET list == config.alternate.list
        IN  /\ \A i \in 1..Len(list) : list[i].lang \in Range(all_languages)
            /\ \A l \in Range(all_languages) :
                  Count(list, [ a \in Range(list) |-> a.lang = l ])
                     = IF BuildEnabled(l) THEN 1 ELSE 0
            /\ \A i \in 1..Len(list) :
                  list[i].lang = default_language => i = 1

\* C10: after on_config and on_env the base and every per-locale
\* configuration hold the plugin registry and the hooks the base held, a
\* hooks field that was present is still present, and every per-locale
\* configuration holds the render environment.
C10_SharedByReference ==
    pc = "on_post_build" =>
        /\ config.plugins = given.config.plugins
        /\ config.hooks = given.config.hooks
        /\ \A l \in Range(all_languages) :
              /\ i18n_configs[l].plugins = given.config.plugins
              /\ i18n_configs[l].hooks = given.config.hooks
              /\ i18n_configs[l].env = Env

-----------------------------------------------------------------------------
(* _fix_search_duplicates applied to an index *)

Titles == { "A", "B" }
Texts == { "x", "y" }
Locations == { "a/", "fr/a/", "fra/" }

\* entries that differ in title, in text, in both or in neither
SearchEntries ==
    { e \in { Entry(t, l, x) : t \in Titles, l \in Locations, x \in Texts } :
        ~ (e.title = "B" /\ e.text = "y") }

\* the languages option once on_config ran, for "fr" beside a default "en"
\* and for a default "en" alone
ConfiguredLanguages ==
    { SetLanguages(m, "en", "Site") :
        m \in { << >>, << Item("fr", LangOpts("fr", LinkOf("fr"), << >>, TRUE, "")) >> } }

InitDedup ==
    /\ Constructed
    /\ pc = "dedup"
    /\ host = Host
    /\ options = Options(FALSE, "en", TRUE, TRUE)
    /\ config = PlainConfig
    /\ registry = Registry(TRUE, FALSE, FALSE)
    /\ search_lang = Some(<< "en" >>)
    /\ nav_translations = << >>
    /\ i18n_files = << >>
    /\ nav = << >>
    /\ calls = << >>
    /\ once = << >>
    /\ listing = List(<< >>)
    /\ target = Leaf("path", << >>)
    /\ replacement = Leaf("str", << >>)
    /\ replaced = List(<< >>)
    /\ languages \in ConfiguredLanguages
    /\ entries \in UNION { [ 1..n -> SearchEntries ] : n \in 0..MaxEntries }
    /\ prevIndex = entries
    /\ dedupRuns = 0

\* self._fix_search_duplicates(search_plugin), run on the index it left
FixSearchDuplicates ==
    /\ pc = "dedup"
    /\ dedupRuns < 2
    /\ prevIndex' = entries
    /\ entries' = _fix_search_duplicates(entries, languages)
    /\ dedupRuns' = dedupRuns + 1
    /\ UNCHANGED << replaceVars, pluginVars, i18n_files, nav, pc, calls, once >>

NextDedup == FixSearchDuplicates

SpecDedup == InitDedup /\ [][NextDedup]_vars

\* how many times an entry occurs in an index
Occurrences(index, e) == Cardinality({ i \in 1..Len(index) : index[i] = e })

DefaultScoped(index) ==
    FilterSeq(index, [ x \in Range(index) |-> ~ LocaleScoped(x, languages) ])

\* C1: the default-scoped entries present before the call are all present
\* after it, in the same order; nothing is added; and every entry removed is
\* locale-scoped and has the title and text of a default-scoped entry.
C1_DefaultScopedKept ==
    dedupRuns >= 1 =>
        /\ DefaultScoped(entries) = DefaultScoped(prevIndex)
        /\ \A e \in Range(prevIndex) \cup Range(entries) :
              /\ Occurrences(entries, e) <= Occurrences(prevIndex, e)
              /\ Occurrences(entries, e) < Occurrences(prevIndex, e)
                 => /\ LocaleScoped(e, languages)
                    /\ \E d \in Range(DefaultScoped(prevIndex)) :
                          d.title = e.title /\ d.text = e.text

\* C1 witness: a call removed an entry from an index that has a
\* default-scoped entry with the same title and text at another location
C1_Witness ==
    /\ dedupRuns = 1
    /\ Len(entries) < Len(prevIndex)
    /\ \E d \in Range(DefaultScoped(entries)), e \in Range(prevIndex) :
          /\ e \notin Range(entries)
          /\ d.title = e.title /\ d.text = e.text

\* C2: after the call no locale-scoped entry of the index has the title and
\* text of a default-scoped entry of the index.
C2_NoDuplicateLeft ==
    dedupRuns >= 1 =>
        \A e \in Range(entries), d \in Range(DefaultScoped(entries)) :
            LocaleScoped(e, languages)
            => ~ (e.title = d.title /\ e.text = d.text)

\* C3: a second run on the index a first run left removes nothing.
C3_Idempotent ==
    dedupRuns = 2 => entries = prevIndex

-----------------------------------------------------------------------------
(* on_post_build *)

\* one call made by on_post_build: the operation, the locale it is made for
\* ("" for none), the page (0 for none), the configuration it receives
\* ("base" or a locale's) and whether it returned
Call(op, lang, page, cfg) ==
    [ op |-> op, lang |-> lang, page |-> page, cfg |-> cfg, ok |-> TRUE ]

\* a plausible slip: the build flag is not consulted
BuiltAlways(lang_config) == TRUE

\* the test of the loop: language_config["build"] is False skips the locale
Built(lang_config) == lang_config.build # FALSE

\* _populate_page / _build_page for each of files.documentation_pages()
PageCalls(op, language, n) ==
    [ p \in 1..n |-> Call(op, language, p, language) ]

\* a plausible slip: each page is rendered right after it is populated
LocaleCallsInterleaved(language, reg, files) ==
    << Call("add_files_from_theme", language, 0, language),
       Call("copy_static_files", language, 0, language) >>
    \o [ k \in 1..(2 * files[language]) |->
           Call(IF k % 2 = 1 THEN "populate" ELSE "render", language,
                (k + 1) \div 2, language) ]

\* the body of the loop for one locale that is built, when nothing raises
LocaleCalls(language, reg, files) ==
    (IF reg.minify THEN << Call("minify.on_pre_build", language, 0, language) >>
     ELSE << >>)
    \o << Call("add_files_from_theme", language, 0, language),
          Call("copy_static_files", language, 0, language) >>
    \o PageCalls("populate", language, files[language])
    \o PageCalls("render", language, files[language])
    \o (IF reg.with_pdf
        THEN << Call("with_pdf.on_config", language, 0, language),
                Call("with_pdf.on_nav", language, 0, language),
                Call("with_pdf.on_post_build", language, 0, language) >>
        ELSE << >>)

\* the loop over self.config["languages"].items()
RECURSIVE LoopCalls(_, _, _)
LoopCalls(langs, reg, files) ==
    IF langs = << >> THEN << >>
    ELSE (IF Built(langs[1].opts) THEN LocaleCalls(langs[1].key, reg, files)
          ELSE << >>)
         \o LoopCalls(Tail(langs), reg, files)

\* a plausible slip: the search integration is finalized with the
\* configuration on_post_build was called with
LastConfigBase(made) == "base"

\* the configuration the name config is bound to after the calls made
LastConfig(made) ==
    LET locale == { i \in 1..Len(made) : made[i].lang # "" }
    IN  IF locale = {} THEN "base"
        ELSE made[CHOOSE i \in locale : \A j \in locale : j <= i].cfg

\* every call of on_post_build when nothing raises
AllCalls(langs, reg, files) ==
    LET loop == (IF reg.with_pdf
                 THEN << Call("with_pdf.on_post_build", "", 0, "base") >>
                 ELSE << >>)
                \o LoopCalls(langs, reg, files)
    IN  loop
        \o (IF reg.search
            THEN << Call("_fix_search_duplicates", "", 0, "base"),
                    Call("search.on_post_build", "", 0, LastConfig(loop)) >>
            ELSE << >>)

\* the positions of the calls into the render pipeline, which may raise
PipelineCalls(made) ==
    { i \in 1..Len(made) : made[i].op \in { "populate", "render" } }

\* a plausible slip: the exception is swallowed and the build goes on
CallsUntilSwallowed(made, at) ==
    [ i \in 1..Len(made) |-> IF i = at THEN [ made[i] EXCEPT !.ok = FALSE ]
                             ELSE made[i] ]

\* the calls made when the call at position at raises (0: none does): the
\* exception leaves on_post_build, nothing after it runs
CallsUntil(made, at) ==
    IF at = 0 THEN made
    ELSE [ i \in 1..at |-> IF i = at THEN [ made[i] EXCEPT !.ok = FALSE ]
                           ELSE made[i] ]

on_post_build ==
    /\ pc = "on_post_build"
    /\ pc' = "done"
    /\ IF options.default_language_only
       THEN UNCHANGED << calls, i18n_configs, entries, prevIndex, dedupRuns >>
       ELSE \E at \in {0} \cup PipelineCalls(AllCalls(languages, registry, i18n_files)) :
              LET made == CallsUntil(AllCalls(languages, registry, i18n_files), at)
                  begun == { made[i].lang : i \in 1..Len(made) }
                  deduplicated ==
                      \E i \in 1..Len(made) : made[i].op = "_fix_search_duplicates"
              IN  /\ calls' = made
                  /\ i18n_configs' =
                        [ l \in DOMAIN i18n_configs |->
                            IF /\ l \in begun
                               /\ i18n_configs[l].theme_name = "material"
                               /\ l \in host.material_languages
                            THEN [ i18n_configs[l] EXCEPT !.theme_language = l ]
                            ELSE i18n_configs[l] ]
                  /\ IF deduplicated
                     THEN /\ prevIndex' = entries
                          /\ entries' = _fix_search_duplicates(entries, languages)
                          /\ dedupRuns' = dedupRuns + 1
                     ELSE UNCHANGED << entries, prevIndex, dedupRuns >>
    /\ UNCHANGED << replaceVars, languages, options, nav_translations,
                    default_language,
                    default_language_options, all_languages,
                    material_alternates, config, registry, search_lang, host,
                    given, i18n_files, nav, once >>

\* the entries with the builds varied
BuildItems ==
    { Item(k, LangOpts(k, LinkOf(k), << >>, b, "")) :
        k \in LangKeys, b \in BOOLEAN }

InitBuild ==
    /\ Constructed
    /\ Idle
    /\ pc = "on_config"
    /\ host = Host
    /\ nav = << >>
    /\ nav_translations = << >>
    /\ config = PlainConfig
    /\ search_lang = Some(<< "en" >>)
    /\ languages \in Mappings(BuildItems)
    /\ \E only \in BOOLEAN, dl \in { "en", "fr" } :
          options = Options(only, dl, TRUE, TRUE)
    /\ \E search \in BOOLEAN, minify \in BOOLEAN, with_pdf \in BOOLEAN :
          registry = Registry(search, minify, with_pdf)
    /\ \E en \in 0..MaxPages, fr \in 0..MaxPages :
          i18n_files = [ l \in LangKeys |->
                           IF l = "en" THEN en ELSE IF l = "fr" THEN fr ELSE 0 ]
    /\ entries = << Entry("A", "a/", "x"), Entry("A", "fr/a/", "x") >>

NextBuild == on_config \/ on_env \/ on_post_build

SpecBuild == InitBuild /\ [][NextBuild]_vars

\* the calls on_post_build makes for one locale
LocaleOps ==
    { "minify.on_pre_build", "add_files_from_theme", "copy_static_files",
      "populate", "render", "with_pdf.on_config", "with_pdf.on_nav",
      "with_pdf.on_post_build" }

\* C7: every populate, render, static-file copy and hook call on_post_build
\* makes for a locale is made with default_language_only false and for a
\* locale whose build flag is true; with default_language_only true
\* on_post_build calls nothing, search deduplication and search finalization
\* included.
C7_OnlyBuiltLocales ==
    pc = "done" =>
        /\ \A i \in 1..Len(calls) :
              calls[i].lang # ""
              => /\ calls[i].op \in LocaleOps
                 /\ ~ options.default_language_only
                 /\ HasKey(languages, calls[i].lang)
                 /\ Get(languages, calls[i].lang).build
        /\ options.default_language_only
           => /\ calls = << >>
              /\ dedupRuns = 0
              /\ entries = << Entry("A", "a/", "x"), Entry("A", "fr/a/", "x") >>

\* C7 witness: a build in which one locale with pages was skipped for its
\* build flag while another was populated and rendered
C7_Witness ==
    /\ pc = "done"
    /\ \E l \in Range(Keys(languages)) :
          /\ ~ Get(languages, l).build
          /\ i18n_files[l] > 0
    /\ \E i \in 1..Len(calls) : calls[i].op = "render" /\ calls[i].ok

-----------------------------------------------------------------------------
(* _maybe_translate_titles and on_page_markdown *)

\* a navigation item: a title and its children (none for a page or a link)
NavItem(title, children) == [ title |-> title, children |-> children ]

\* self.config["nav_translations"].get(language, {})
TranslatedNav(language) ==
    IF language \in DOMAIN nav_translations THEN nav_translations[language]
    ELSE << >>

\* the items as _maybe_translate_titles leaves them: a title that is a key
\* of the table is replaced, and the children, if any, are translated too
RECURSIVE TranslateItems(_, _)
TranslateItems(items, translated_nav) ==
    [ i \in 1..Len(items) |->
        NavItem(IF items[i].title \in DOMAIN translated_nav
                THEN translated_nav[items[i].title]
                ELSE items[i].title,
                IF items[i].children # << >>
                THEN TranslateItems(items[i].children, translated_nav)
                ELSE items[i].children) ]

_maybe_translate_titles(language, items) ==
    IF DOMAIN TranslatedNav(language) # {}
    THEN TranslateItems(items, TranslatedNav(language))
    ELSE items

\* the locale whose navigation is translated, and the locale of its pages:
\* page.file.dest_language or self.default_language
NavLocale == "fr"
PageLocale(dest_language) ==
    IF dest_language = "" THEN default_language ELSE dest_language

\* the navigation pass: the titles of a locale's navigation are translated
TranslateNavigation ==
    /\ pc = "on_nav"
    /\ nav' = _maybe_translate_titles(NavLocale, nav)
    /\ once' = nav'
    /\ pc' = "on_page_markdown"
    /\ UNCHANGED << replaceVars, pluginVars, i18n_files, entries, calls, prevIndex,
                    dedupRuns >>

\* on_page_markdown for the page at position i of the navigation, or for
\* child j of the item at position i: the page is the navigation's own object
on_page_markdown ==
    /\ pc = "on_page_markdown"
    /\ \E i \in 1..Len(nav) :
          \/ /\ nav[i].children = << >>
             /\ nav' = [ nav EXCEPT ![i] =
                           IF DOMAIN TranslatedNav(PageLocale(NavLocale)) # {}
                           THEN _maybe_translate_titles(PageLocale(NavLocale),
                                                        << nav[i] >>)[1]
                           ELSE nav[i] ]
          \/ \E j \in 1..Len(nav[i].children) :
                nav' = [ nav EXCEPT ![i].children[j] =
                           IF DOMAIN TranslatedNav(PageLocale(NavLocale)) # {}
                           THEN _maybe_translate_titles(PageLocale(NavLocale),
                                    << nav[i].children[j] >>)[1]
                           ELSE nav[i].children[j] ]
    /\ UNCHANGED << replaceVars, pluginVars, i18n_files, entries, calls, prevIndex,
                    dedupRuns, once, pc >>

NavTitles == { "A", "B", "C" }

\* the translation tables over the titles
Tables == UNION { [ keys -> NavTitles ] : keys \in SUBSET NavTitles }

NavPages == { NavItem(t, << >>) : t \in NavTitles }

NavItems ==
    { NavItem(t, c) :
        t \in NavTitles,
        c \in UNION { [ 1..n -> NavPages ] : n \in 0..MaxChildren } }

InitTitles ==
    /\ Idle
    /\ pc = "on_nav"
    /\ host = Host
    /\ options = Options(FALSE, "en", TRUE, TRUE)
    /\ config = PlainConfig
    /\ registry = Registry(FALSE, FALSE, FALSE)
    /\ search_lang = Unset
    /\ languages =
          SetLanguages(<< Item("fr", LangOpts("fr", LinkOf("fr"), << >>, TRUE, "")) >>,
                       "en", "Site")
    /\ default_language = "en"
    /\ default_language_options = LangOpts("en", << ".", "/" >>, << >>, TRUE, "Site")
    /\ all_languages = << "fr", "en" >>
    /\ i18n_configs = << >>
    /\ material_alternates = Unset
    /\ given = [ languages |-> << >>, search_lang |-> Unset,
                 config |-> PlainConfig, events |-> << >>,
                 page |-> NoPage, material_alternates |-> Unset ]
    /\ i18n_files = << >>
    /\ entries = << >>
    /\ nav \in UNION { [ 1..n -> NavItems ] : n \in 0..MaxItems }
    /\ \E table \in Tables : nav_translations = [ l \in { "fr" } |-> table ]

NextTitles == TranslateNavigation \/ on_page_markdown

SpecTitles == InitTitles /\ [][NextTitles]_vars

\* C8: the titles after _maybe_translate_titles was applied a second time
\* to items of the navigation are the titles after it was applied once.
C8_TitlesIdempotent ==
    pc = "on_page_markdown" => nav = once

-----------------------------------------------------------------------------
(* The order of the calls of on_post_build *)

\* the position of a locale in the languages mapping
Position(l) == CHOOSE i \in 1..Len(languages) : languages[i].key = l

\* the locales whose build flag is true, in the order of the mapping
BuiltLocales ==
    Keys(FilterSeq(languages, [ x \in Range(languages) |-> x.opts.build ]))

NoCallRaised == \A i \in 1..Len(calls) : calls[i].ok

\* the positions in calls of the calls of one operation
CallsOf(op) == { i \in 1..Len(calls) : calls[i].op = op }

\* C11: the calls made for locales follow the order of the languages
\* mapping with no locale's calls between another's; within a locale every
\* page is populated before any page is rendered; and when nothing raises
\* the locales that got calls are the built ones, each page of each
\* populated once and rendered once.
C11_LocaleByLocale ==
    pc = "done" =>
        /\ \A i, j \in 1..Len(calls) :
              (i < j /\ calls[i].lang # "" /\ calls[j].lang # "")
              => Position(calls[i].lang) <= Position(calls[j].lang)
        /\ \A i \in CallsOf("render") :
              \A p \in 1..i18n_files[calls[i].lang] :
                 \E j \in CallsOf("populate") :
                    /\ j < i
                    /\ calls[j].lang = calls[i].lang
                    /\ calls[j].page = p
        /\ \A i \in CallsOf("render"), j \in CallsOf("populate") :
              calls[i].lang = calls[j].lang => j < i
        /\ (NoCallRaised /\ ~ options.default_language_only)
           => \A l \in Range(Keys(languages)) :
                 \A op \in { "populate", "render" } :
                    \A p \in 1..i18n_files[l] :
                       Cardinality({ i \in CallsOf(op) :
                                       calls[i].lang = l /\ calls[i].page = p })
                          = IF l \in Range(BuiltLocales) THEN 1 ELSE 0

\* C11 witness: two locales of two pages each were built to the end
C11_Witness ==
    /\ pc = "done"
    /\ NoCallRaised
    /\ Len(BuiltLocales) >= 2
    /\ \A l \in Range(BuiltLocales) : i18n_files[l] >= 2
    /\ Cardinality(CallsOf("render")) >= 4

\* C12: with a search integration, default_language_only false and no call
\* raising, on_post_build runs search deduplication once and then the search
\* finalization once, as its last two calls, after every populate and
\* render call, and the finalization receives the configuration of the last
\* locale built, the base configuration if none was.
C12_SearchFinalizedLast ==
    (pc = "done" /\ registry.search /\ ~ options.default_language_only
        /\ NoCallRaised)
    => /\ Cardinality(CallsOf("_fix_search_duplicates")) = 1
       /\ Cardinality(CallsOf("search.on_post_build")) = 1
       /\ Len(calls) >= 2
       /\ calls[Len(calls) - 1].op = "_fix_search_duplicates"
       /\ calls[Len(calls)].op = "search.on_post_build"
       /\ calls[Len(calls)].cfg =
             IF BuiltLocales = << >> THEN "base"
             ELSE BuiltLocales[Len(BuiltLocales)]
       /\ dedupRuns = 1
       /\ entries = _fix_search_duplicates(prevIndex, languages)

\* C12 witness: the search integration was finalized with the configuration
\* of a locale, after that locale's pages were rendered
C12_Witness ==
    /\ pc = "done"
    /\ registry.search
    /\ Len(calls) >= 2
    /\ calls[Len(calls)].op = "search.on_post_build"
    /\ calls[Len(calls)].cfg # "base"
    /\ \E i \in CallsOf("render") : calls[i].lang = calls[Len(calls)].cfg
    /\ Len(BuiltLocales) >= 2

\* C13: a populate or render call that raises is the last call
\* on_post_build makes: no page and no locale after it is populated or
\* rendered, the call is not made again, and neither search deduplication
\* nor search finalization runs.
C13_FailureAborts ==
    pc = "done" =>
        \A i \in 1..Len(calls) :
            ~ calls[i].ok
            => /\ i = Len(calls)
               /\ calls[i].op \in { "populate", "render" }
               /\ \A j \in 1..Len(calls) :
                     (calls[j].op = calls[i].op /\ calls[j].lang = calls[i].lang
                        /\ calls[j].page = calls[i].page) => j = i
               /\ CallsOf("_fix_search_duplicates") = {}
               /\ CallsOf("search.on_post_build") = {}
               /\ dedupRuns = 0
               /\ entries = << Entry("A", "a/", "x"), Entry("A", "fr/a/", "x") >>

\* C13 witness: the first populate call of a locale raised with a second
\* page, a later built locale with pages and a search integration pending
C13_Witness ==
    /\ pc = "done"
    /\ registry.search
    /\ Len(calls) >= 1
    /\ ~ calls[Len(calls)].ok
    /\ calls[Len(calls)].op = "populate"
    /\ calls[Len(calls)].page = 1
    /\ i18n_files[calls[Len(calls)].lang] = 2
    /\ \E l \in Range(BuiltLocales) :
          /\ Position(l) > Position(calls[Len(calls)].lang)
          /\ i18n_files[l] > 0

-----------------------------------------------------------------------------
(* The event lists of the registry through on_config *)

Modules == { PdfModule, "other.plugin", NoModule }

\* the event lists of at most MaxHandlers handlers; a handler's id is its
\* place in the list as registered
HandlerLists ==
    UNION { { [ k \in 1..n |-> Handler(m[k], k) ] : m \in [ 1..n -> Modules ] } :
            n \in 0..MaxHandlers }

InitEvents ==
    /\ Constructed
    /\ Idle
    /\ pc = "on_config"
    /\ host = Host
    /\ i18n_files = << >>
    /\ entries = << >>
    /\ nav = << >>
    /\ languages = << Item("en", LangOpts("en", LinkOf("en"), << >>, TRUE, "")),
                      Item("fr", LangOpts("fr", LinkOf("fr"), << >>, TRUE, "")) >>
    /\ options = Options(FALSE, "en", TRUE, TRUE)
    /\ config = PlainConfig
    /\ search_lang = Unset
    /\ nav_translations = << >>
    /\ \E with_pdf \in BOOLEAN, first \in HandlerLists,
          rest \in { << >> } \cup { << l >> : l \in HandlerLists } :
          registry = [ Registry(FALSE, FALSE, with_pdf)
                         EXCEPT !.events = << first >> \o rest ]

NextEvents == on_config \/ on_env

SpecEvents == InitEvents /\ [][NextEvents]_vars

\* the handlers of a list that do not belong to the with-pdf module, in
\* the order of the list
NotPdf(list) ==
    FilterSeq(list, [ h \in Range(list) |-> h.module # PdfModule ])

\* C14: once on_config ran with the with-pdf plugin registered, every event
\* list of the registry holds the handlers it held before that are not of
\* the with-pdf module, in their order, and nothing else.
C14_PdfHandlersRemoved ==
    (pc # "on_config" /\ registry.with_pdf)
    => /\ Len(registry.events) = Len(given.events)
       /\ \A n \in 1..Len(given.events) :
             registry.events[n] = NotPdf(given.events[n])

-----------------------------------------------------------------------------
(* on_page_context: the language switcher of one page *)

\* page.url without the "<language>/" it starts with, for the first
\* language of self.all_languages it starts with
RECURSIVE PageUrl(_, _)
PageUrl(url, ls) ==
    IF ls = << >> THEN url
    ELSE IF StartsWith(url, << ls[1], "/" >>)
         THEN SubSeq(url, 3, Len(url))
         ELSE PageUrl(url, Tail(ls))

\* link.replace("/index.html", "", 1)
RECURSIVE ReplaceIndexHtml(_)
ReplaceIndexHtml(link) ==
    IF Len(link) < 2 THEN link
    ELSE IF link[1] = "/" /\ link[2] = "index.html"
         THEN SubSeq(link, 3, Len(link))
         ELSE << link[1] >> \o ReplaceIndexHtml(Tail(link))

\* the body of the loop over the alternates, for one of them
ContextualAlternate(alternate, page_url, use_directory_urls) ==
    LET link == IF use_directory_urls = FALSE
                THEN ReplaceIndexHtml(alternate.link)
                ELSE alternate.link
    IN  IF alternate.fixed_link # << >>
        THEN [ alternate EXCEPT !.link = alternate.fixed_link ]
        ELSE [ alternate EXCEPT !.link =
                 (IF link # << >> /\ link[Len(link)] = "/" THEN link
                  ELSE link \o << "/" >>) \o page_url ]

\* a plausible slip: the alternates edited are self.material_alternates
\* themselves
KeptAlternatesAliased(base, contextual) == contextual

\* alternates = deepcopy(self.material_alternates): the list the loop edits
\* is a copy, the plugin keeps its own
KeptAlternates(base, contextual) == base

\* the site name of the page's locale
LocalizedSiteName(page, cfg) ==
    IF page.dest_language = "" THEN default_language_options.site_name
    ELSE IF HasKey(languages, page.locale)
         THEN Get(languages, page.locale).site_name
         ELSE cfg.site_name

\* the urls of the pages, in pieces
PageUrls ==
    { << >>, << "a", "/" >>, << "fr", "/", "a", "/" >>, << "fra", "/" >>,
      << "fr", "/", "index.html" >> }

\* the pages the host renders: those of the main build with the base
\* configuration, those of a locale's build with the locale's; a page of
\* a locale's build is in that locale or, when it has no translation, in
\* the default one
Pages ==
    { p \in [ url : PageUrls, locale : Range(all_languages),
              dest_language : { "" } \cup Range(Keys(languages)) ] :
        p.locale \in { default_language, p.dest_language } }

on_page_context ==
    /\ pc = "on_post_build"
    /\ \E page \in Pages :
          LET cfg == IF page.dest_language = "" THEN config
                     ELSE i18n_configs[page.dest_language]
              alternates ==
                  [ i \in 1..Len(material_alternates.list) |->
                      ContextualAlternate(material_alternates.list[i],
                          PageUrl(page.url, all_languages),
                          cfg.use_directory_urls) ]
              shown == IF material_alternates.set
                          /\ material_alternates.list # << >>
                       THEN [ cfg EXCEPT !.alternate = Some(alternates) ]
                       ELSE cfg
              named == [ shown EXCEPT
                           !.site_name = LocalizedSiteName(page, cfg) ]
          IN  /\ given' = [ given EXCEPT !.page = page,
                              !.material_alternates = material_alternates ]
              /\ material_alternates' =
                    IF material_alternates.set /\ material_alternates.list # << >>
                    THEN KeptAlternates(material_alternates, Some(alternates))
                    ELSE material_alternates
              /\ IF page.dest_language = ""
                 THEN config' = named /\ UNCHANGED i18n_configs
                 ELSE /\ i18n_configs' =
                           [ i18n_configs EXCEPT ![page.dest_language] = named ]
                      /\ UNCHANGED config
    /\ UNCHANGED << replaceVars, languages, options, nav_translations,
                    default_language,
                    default_language_options, all_languages, registry,
                    search_lang, host, i18n_files, entries, nav, pc, calls,
                    prevIndex, dedupRuns, once >>

\* the entries of the languages option for the switcher: built or not,
\* with a fixed link or not
SwitcherItems ==
    { Item(k, LangOpts(k, LinkOf(k), f, b, "")) :
        k \in { "en", "fr" }, b \in BOOLEAN,
        f \in { << >>, << "https://fixed" >> } }

InitContext ==
    /\ Constructed
    /\ Idle
    /\ pc = "on_config"
    /\ host = Host
    /\ i18n_files = << >>
    /\ entries = << >>
    /\ nav = << >>
    /\ languages \in { m \in Mappings(SwitcherItems) : Len(m) >= 1 }
    /\ options = Options(FALSE, "en", TRUE, TRUE)
    /\ \E alternate \in { Unset,
              Some(<< Alternate("Mine", << ".", "/", "mine" >>, << >>, "en") >>) },
          dirs \in BOOLEAN, instant \in BOOLEAN :
          config = BaseConfig(Hooks, alternate, dirs, "material", instant)
    /\ registry = Registry(FALSE, FALSE, FALSE)
    /\ search_lang = Unset
    /\ nav_translations = << >>

NextContext == on_config \/ on_env \/ on_page_context

SpecContext == InitContext /\ [][NextContext]_vars

\* the configuration the last page was rendered with
PageConfig ==
    IF given.page.dest_language = "" THEN config
    ELSE i18n_configs[given.page.dest_language]

\* a page was handed to on_page_context while the plugin held a switcher
Contextualized ==
    /\ pc = "on_post_build"
    /\ given.page # NoPage
    /\ given.material_alternates.set
    /\ given.material_alternates.list # << >>

\* a link that ends with "/", a "/" added when it does not
Terminated(link) ==
    IF link # << >> /\ link[Len(link)] = "/" THEN link ELSE link \o << "/" >>

\* the url of a page without the locale and "/" it starts with
WithoutLocale(url) ==
    IF Len(url) >= 2 /\ url[1] \in Range(all_languages) /\ url[2] = "/"
    THEN SubSeq(url, 3, Len(url))
    ELSE url

\* a link without the "index.html" it ends with, when it ends with
\* "/index.html"
WithoutIndexHtml(link) ==
    IF Len(link) >= 2 /\ link[Len(link)] = "index.html"
       /\ link[Len(link) - 1] = "/"
    THEN SubSeq(link, 1, Len(link) - 2)
    ELSE link

\* the switcher of the last page, given what each entry's link is built on
SwitcherFrom(BaseLink(_)) ==
    /\ PageConfig.alternate.set
    /\ Len(PageConfig.alternate.list) = Len(given.material_alternates.list)
    /\ \A i \in 1..Len(given.material_alternates.list) :
          LET base == given.material_alternates.list[i]
              shown == PageConfig.alternate.list[i]
          IN  /\ shown.name = base.name
              /\ shown.lang = base.lang
              /\ shown.fixed_link = base.fixed_link
              /\ shown.link = IF base.fixed_link # << >> THEN base.fixed_link
                              ELSE Terminated(BaseLink(base.link))
                                   \o WithoutLocale(given.page.url)
    /\ material_alternates = given.material_alternates

-----------------------------------------------------------------------------
(* _list_replace_value and _dict_replace_value *)

\* str(v) of a str or a Path
Str(v) == v.text

\* _is_url(value), for a str
_is_url(value) ==
    \/ StartsWith(value.text, << "http:", "/", "/" >>)
    \/ StartsWith(value.text, << "https:", "/", "/" >>)

\* the parts of a path: its pieces that are neither "/" nor "."
RECURSIVE Parts(_)
Parts(text) ==
    IF text = << >> THEN << >>
    ELSE IF text[1] \in { "/", "." } THEN Parts(Tail(text))
         ELSE << text[1] >> \o Parts(Tail(text))

RECURSIVE Joined(_)
Joined(parts) ==
    IF Len(parts) <= 1 THEN parts
    ELSE << parts[1], "/" >> \o Joined(Tail(parts))

\* str(Path(text)): "." parts and repeated or trailing "/" go, the "/" a
\* path starts with stays, and the empty path is "."
StrPath(text) ==
    LET root == IF text # << >> /\ text[1] = "/" THEN << "/" >> ELSE << >>
        path == root \o Joined(Parts(text))
    IN  IF path = << >> THEN << "." >> ELSE path

\* the branch taken for a str or a Path.  value.startswith is reached with
\* whatever v is by then: a Path has no startswith, and the AttributeError
\* leaves the function
ReplacedLeaf(v, o, n) ==
    LET w == IF Str(v) = Str(o) THEN n ELSE v
    IN  IF w.kind # "str" THEN Raised
        ELSE IF ~ _is_url(w) THEN Leaf("str", StrPath(w.text))
             ELSE w

\* an exception raised for one element leaves the function
Returned(x) ==
    IF \E i \in 1..Len(x.items) : x.items[i] = Raised THEN Raised ELSE x

RECURSIVE _list_replace_value(_, _, _), _dict_replace_value(_, _, _)
_list_replace_value(l, o, n) ==
    Returned(List([ i \in 1..Len(l.items) |->
        LET e == l.items[i]
        IN  IF e.kind = "list" THEN _list_replace_value(e, o, n)
            ELSE IF e.kind = "dict" THEN _dict_replace_value(e, o, n)
            ELSE IF e.kind \in { "str", "path" } THEN ReplacedLeaf(e, o, n)
            ELSE e ]))

_dict_replace_value(directory, o, n) ==
    Returned(Dict(directory.keys, [ i \in 1..Len(directory.items) |->
        LET v == directory.items[i]
        IN  IF v.kind = "dict" THEN _dict_replace_value(v, o, n)
            ELSE IF v.kind = "list" THEN _list_replace_value(v, o, n)
            ELSE IF v.kind \in { "str", "path" } THEN ReplacedLeaf(v, o, n)
            ELSE v ]))

\* the call of the function that goes with the structure
ReplaceValue ==
    /\ pc = "replace"
    /\ replaced' = IF listing.kind = "list"
                   THEN _list_replace_value(listing, target, replacement)
                   ELSE _dict_replace_value(listing, target, replacement)
    /\ pc' = "replaced"
    /\ UNCHANGED << pluginVars, i18n_files, entries, nav, calls, prevIndex,
                    dedupRuns, once, listing, target, replacement >>

\* the entries of a static navigation: pages as strings, as paths, a link
NavLeaves ==
    { Leaf("str", << "a.md" >>), Leaf("str", << ".", "/", "b.md" >>),
      Leaf("str", << "https:", "/", "/", "x" >>),
      Leaf("path", << "a.md" >>), Leaf("path", << "b.md" >>),
      Leaf("int", << "1" >>) }

DictKeys == << "k1", "k2", "k3" >>

\* the lists and the dicts of at most n values of a set
Containers(values, n) ==
    UNION { { List(items) : items \in [ 1..k -> values ] }
            \cup { Dict(SubSeq(DictKeys, 1, k), items) :
                     items \in [ 1..k -> values ] } : k \in 0..n }

\* structures of two levels: at most width values, each a leaf or a list
\* or dict of at most inner leaves
Structures(width, inner) ==
    Containers(NavLeaves \cup Containers(NavLeaves, inner), width)

InitReplace ==
    /\ Constructed
    /\ pc = "replace"
    /\ host = Host
    /\ languages = << >>
    /\ options = Options(FALSE, "en", TRUE, TRUE)
    /\ config = PlainConfig
    /\ registry = Registry(FALSE, FALSE, FALSE)
    /\ search_lang = Unset
    /\ nav_translations = << >>
    /\ i18n_files = << >>
    /\ entries = << >>
    /\ nav = << >>
    /\ calls = << >>
    /\ prevIndex = << >>
    /\ dedupRuns = 0
    /\ once = << >>
    /\ listing \in Structures(MaxItems, MaxChildren)
    /\ target \in { Leaf("path", << "a.md" >>), Leaf("str", << "a.md" >>) }
    /\ replacement \in { Leaf("str", << "a.fr.md" >>),
                         Leaf("str", << ".", "/", "a.fr.md" >>) }
    /\ replaced = List(<< >>)

NextReplace == ReplaceValue

SpecReplace == InitReplace /\ [][NextReplace]_vars

\* what the claim says a structure becomes
RECURSIVE Conforms(_, _)
Conforms(in, out) ==
    IF in.kind \in { "list", "dict" }
    THEN /\ out.kind = in.kind
         /\ out.keys = in.keys
         /\ Len(out.items) = Len(in.items)
         /\ \A i \in 1..Len(in.items) : Conforms(in.items[i], out.items[i])
    ELSE IF in.kind \in { "str", "path" } /\ in.text = target.text
         THEN out \in { replacement, Leaf("str", StrPath(replacement.text)) }
    ELSE IF in.kind = "path"
         THEN out.kind = "path" /\ StrPath(out.text) = StrPath(in.text)
    ELSE IF in.kind = "str"
         THEN /\ out.kind = "str"
              /\ out.text = IF _is_url(in) THEN in.text ELSE StrPath(in.text)
    ELSE out = in

\* C16: the function returns a structure of the shape of its input in which
\* every str or Path whose string form is the target's is the replacement,
\* every other Path is still a Path, every other str is a str, normalized
\* unless it is an http/https url, and every other value is what it was;
\* the input is what it was.
C16_ReplacedSameShape ==
    pc = "replaced" => Conforms(listing, replaced)

=============================================================================
